---- MODULE Spec2Model ----
(***************************************************************************)
(* Model of lambeq.ccg2discocat.web_parser.WebParser.sentences2trees and   *)
(* of the batch type checks of lambeq.core.utils.                          *)
(*                                                                         *)
(* A Python value is a record [type, val]; a str is the sequence of its    *)
(* characters, a list the sequence of its elements.  Python indices are    *)
(* kept 0-based where the code stores them (empty_indices, the index in    *)
(* the blank-sentence error).                                              *)
(***************************************************************************)
EXTENDS Integers, Sequences, FiniteSets, TLC

VARIABLES service_url, arg, suppress_exceptions, tokenised, pc, sentences,
          empty_indices, sentence, trees, requests, replies, response,
          result, raised

(* service_url          self.service_url, line 55                          *)
(* arg                  the caller's list passed as `sentences`            *)
(* suppress_exceptions, tokenised   the flags of the call, lines 60-61     *)
(* pc                   idle, entry (called), urlopen (blocked in line     *)
(*                      120), returned, raised                             *)
(* sentences            the local list built at line 95 or 102             *)
(* empty_indices        line 103                                           *)
(* sentence             the loop variable of line 104, read at line 126    *)
(* trees                line 114                                           *)
(* requests             the URLs passed to urlopen, in order               *)
(* replies              per request, whether the try block completed       *)
(* response             the last response; its data is the serial number   *)
(*                      of the request it answers                          *)
(* result, raised       the list returned, the exception raised            *)
vars == <<service_url, arg, suppress_exceptions, tokenised, pc, sentences,
          empty_indices, sentence, trees, requests, replies, response,
          result, raised>>

(* ------------------------------ bounds ------------------------------- *)

MaxBatch == 3

MaxLen == 4

MaxTokens == 2

MaxTokenLen == 1

(* --------------------------- Python values --------------------------- *)

Str(s) == [type |-> "str", val |-> s]

List(xs) == [type |-> "list", val |-> xs]

PyInt == [type |-> "int", val |-> <<>>]

Char == {"a", "b", " ", "\t"}

IsSpace(c) == c \in {" ", "\t"}

SeqsUpTo(S, n) == UNION {[1..k -> S] : k \in 0..n}

(* ------------------------- lambeq.core.utils ------------------------- *)

tokenised_sentence_type_check(s) ==
    /\ s.type = "list"
    /\ \A k \in 1..Len(s.val) : s.val[k].type = "str"

IsListOnly(b) == b.type = "list"

untokenised_batch_type_check(b) ==
    /\ b.type = "list"
    /\ \A k \in 1..Len(b.val) : b.val[k].type = "str"

tokenised_batch_type_check(b) ==
    /\ b.type = "list"
    /\ \A k \in 1..Len(b.val) : tokenised_sentence_type_check(b.val[k])

(* ------------------------ str.join, str.split ------------------------ *)

RECURSIVE join(_)
join(words) ==
    IF words = <<>> THEN <<>>
    ELSE IF Len(words) = 1 THEN words[1]
    ELSE words[1] \o <<" ">> \o join(Tail(words))

RECURSIVE SplitAcc(_, _, _, _)
SplitAcc(s, word, out, seps) ==
    LET flushed == IF word = <<>> THEN out ELSE Append(out, word)
    IN  IF s = <<>> THEN flushed
        ELSE IF Head(s) \in seps THEN SplitAcc(Tail(s), <<>>, flushed, seps)
        ELSE SplitAcc(Tail(s), Append(word, Head(s)), out, seps)

split(s) == SplitAcc(s, <<>>, <<>>, {c \in Char : IsSpace(c)})

(* normalisation, web_parser.py lines 95 and 101-102 *)
NormaliseTokenised(b) ==
    [k \in 1..Len(b.val) |->
        join([j \in 1..Len(b.val[k].val) |-> b.val[k].val[j].val])]

(* str(s), line 101: the text of a str; any other value gives its repr *)
str(x) == IF x.type = "str" THEN x.val ELSE <<"r", "e", "p", "r">>

NormaliseUntokenised(b) ==
    [k \in 1..Len(b.val) |-> join(split(str(b.val[k])))]

(* ------------------- urllib.parse.urlencode, the URL ------------------ *)

quote_char(c) ==
    IF c = " " THEN <<"+">>
    ELSE IF c = "\t" THEN <<"%", "0", "9">>
    ELSE <<c>>

RECURSIVE quote_plus(_)
quote_plus(s) ==
    IF s = <<>> THEN <<>> ELSE quote_char(Head(s)) \o quote_plus(Tail(s))

urlencode(sent) == <<"sentence", "=">> \o quote_plus(sent)

MakeUrl(base, sent) == <<base, "?">> \o urlencode(sent)

SERVICE_URL == "https://cqc.pythonanywhere.com/tree/json"

(* ----------------------- trees and exceptions ------------------------ *)

None == [tree |-> FALSE, data |-> 0]

from_json(data) == [tree |-> TRUE, data |-> data]

NoException ==
    [type |-> "none", msg |-> "", index |-> 0 - 1, sentence |-> <<>>,
     error_code |-> 0]

TypeValueError ==
    [type |-> "ValueError", msg |-> "type", index |-> 0 - 1,
     sentence |-> <<>>, error_code |-> 0]

BlankValueError(i) ==
    [type |-> "ValueError", msg |-> "blank", index |-> i,
     sentence |-> <<>>, error_code |-> 0]

WebParseError(sent, code) ==
    [type |-> "WebParseError", msg |-> "", index |-> 0 - 1,
     sentence |-> sent, error_code |-> code]

Propagated(type) ==
    [type |-> type, msg |-> "", index |-> 0 - 1, sentence |-> <<>>,
     error_code |-> 0]

(* the loop variable `sentence` of lines 104-109, still bound at line 126 *)
Unbound == [bound |-> FALSE, val |-> <<>>]

Bound(s) == [bound |-> TRUE, val |-> s]

(* --------------------- the service's responses ----------------------- *)

HTTPErrorCodes == {404, 500}

TreeResponses(k) == {[status |-> 200, body |-> "tree", data |-> k]}

HTTPErrorResponses ==
    {[status |-> c, body |-> "", data |-> 0] : c \in HTTPErrorCodes}

URLErrorResponses == {[status |-> 0, body |-> "", data |-> 0]}

InvalidJSONResponses == {[status |-> 200, body |-> "invalid-json", data |-> 0]}

UndecodableResponses(k) == {[status |-> 200, body |-> "not-a-tree", data |-> k]}

NoResponse == [status |-> 0, body |-> "none", data |-> 0]

(* the try block of lines 119-121 completed: urlopen and json.load *)
Succeeded(resp) == resp.status = 200 /\ resp.body # "invalid-json"

(* ------------------ the loops of sentences2trees --------------------- *)

RECURSIVE BlankScanLast(_, _, _, _)
BlankScanLast(sents, i, empties, suppress) ==
    LET n == Len(sents) - i
    IN  IF n = 0
        THEN [blank |-> FALSE, index |-> 0 - 1, empty_indices |-> empties,
              sentence |-> IF Len(sents) = 0 THEN Unbound
                           ELSE Bound(sents[Len(sents)])]
        ELSE IF sents[n] = <<>> /\ ~suppress
        THEN [blank |-> TRUE, index |-> n - 1, empty_indices |-> empties,
              sentence |-> Bound(sents[n])]
        ELSE BlankScanLast(sents, i + 1,
                 IF sents[n] = <<>> THEN <<n - 1>> \o empties ELSE empties,
                 suppress)

(* lines 103-109 *)
RECURSIVE BlankScan(_, _, _, _)
BlankScan(sents, i, empties, suppress) ==
    IF i = Len(sents)
    THEN [blank |-> FALSE, index |-> 0 - 1, empty_indices |-> empties,
          sentence |-> IF i = 0 THEN Unbound ELSE Bound(sents[i])]
    ELSE IF sents[i + 1] = <<>>
    THEN IF suppress
         THEN BlankScan(sents, i + 1, Append(empties, i), suppress)
         ELSE [blank |-> TRUE, index |-> i, empty_indices |-> empties,
               sentence |-> Bound(sents[i + 1])]
    ELSE BlankScan(sents, i + 1, empties, suppress)

DelAt(s, i) ==
    IF i < Len(s) THEN SubSeq(s, 1, i) \o SubSeq(s, i + 2, Len(s)) ELSE s

RECURSIVE DeleteIndicesForward(_, _)
DeleteIndicesForward(sents, idxs) ==
    IF idxs = <<>> THEN sents
    ELSE DeleteIndicesForward(DelAt(sents, Head(idxs)), Tail(idxs))

(* lines 111-112 *)
RECURSIVE DeleteIndices(_, _)
DeleteIndices(sents, idxs) ==
    IF idxs = <<>> THEN sents
    ELSE DeleteIndices(DelAt(sents, idxs[Len(idxs)]),
                       SubSeq(idxs, 1, Len(idxs) - 1))

insert(s, i, x) ==
    IF i >= Len(s) THEN Append(s, x)
    ELSE SubSeq(s, 1, i) \o <<x>> \o SubSeq(s, i + 1, Len(s))

InsertNonesSkipped(ts, idxs) == ts

RECURSIVE InsertNonesReversed(_, _)
InsertNonesReversed(ts, idxs) ==
    IF idxs = <<>> THEN ts
    ELSE InsertNonesReversed(insert(ts, idxs[Len(idxs)], None),
                             SubSeq(idxs, 1, Len(idxs) - 1))

(* lines 136-137 *)
RECURSIVE InsertNones(_, _)
InsertNones(ts, idxs) ==
    IF idxs = <<>> THEN ts
    ELSE InsertNones(insert(ts, Head(idxs), None), Tail(idxs))

HandleResponseLenient(resp, loopvar, suppress) ==
    IF resp.status >= 400
    THEN IF suppress
         THEN [raise |-> FALSE, tree |-> None, exc |-> NoException]
         ELSE [raise |-> TRUE, tree |-> None,
               exc |-> WebParseError(loopvar.val, resp.status)]
    ELSE IF resp.status = 0 \/ resp.body = "invalid-json"
    THEN [raise |-> FALSE, tree |-> None, exc |-> NoException]
    ELSE IF resp.body = "not-a-tree"
    THEN [raise |-> TRUE, tree |-> None, exc |-> Propagated("KeyError")]
    ELSE [raise |-> FALSE, tree |-> from_json(resp.data), exc |-> NoException]

(* lines 119-133: the outcome of one iteration of the request loop *)
HandleResponse(resp, loopvar, suppress) ==
    IF resp.status >= 400
    THEN IF suppress
         THEN [raise |-> FALSE, tree |-> None, exc |-> NoException]
         ELSE [raise |-> TRUE, tree |-> None,
               exc |-> WebParseError(loopvar.val, resp.status)]
    ELSE IF resp.status = 0 \/ resp.body = "invalid-json"
    THEN IF suppress
         THEN [raise |-> FALSE, tree |-> None, exc |-> NoException]
         ELSE [raise |-> TRUE, tree |-> None,
               exc |-> Propagated(IF resp.status = 0 THEN "URLError"
                                  ELSE "JSONDecodeError")]
    ELSE IF resp.body = "not-a-tree"
    THEN [raise |-> TRUE, tree |-> None, exc |-> Propagated("KeyError")]
    ELSE [raise |-> FALSE, tree |-> from_json(resp.data), exc |-> NoException]

(* the caller's list object after lines 90-112: `sentences` is rebound to *)
(* a fresh list at line 95 or 102, so the del of line 112 acts on that    *)
ToPy(sents) == List([k \in 1..Len(sents) |-> Str(sents[k])])

CallerListInPlace(old, local) == ToPy(local)

CallerListAfter(old, local) == old

(* ------------------------------ inputs ------------------------------- *)

SimpleStrings ==
    {<<>>, <<" ", "\t">>, <<"a">>, <<"b", " ">>, <<"a", " ", " ", "b">>}

SimpleTokenLists ==
    {<<>>, <<<<>>>>, <<<<"a">>>>, <<<<"a">>, <<"b">>>>, <<<<>>, <<>>>>}

TokenList(toks) == List([j \in 1..Len(toks) |-> Str(toks[j])])

OddElements ==
    {PyInt, Str(<<"a">>), List(<<Str(<<"a">>)>>), List(<<PyInt>>)}

Batches ==
    {List(b) : b \in SeqsUpTo({Str(s) : s \in SimpleStrings}, MaxBatch)}
    \cup {List(b) :
            b \in SeqsUpTo({TokenList(t) : t \in SimpleTokenLists}, MaxBatch)}
    \cup {List(<<Str(s)>>) : s \in SeqsUpTo(Char, MaxLen)}
    \cup {List(<<TokenList(t)>>) :
            t \in SeqsUpTo(SeqsUpTo(Char, MaxTokenLen), MaxTokens)}
    \cup {List(b) : b \in SeqsUpTo(OddElements, MaxBatch)}
    \cup {Str(<<"a">>), PyInt}

(* ------------------------------ actions ------------------------------ *)

Init ==
    /\ service_url = SERVICE_URL
    /\ arg = List(<<>>)
    /\ suppress_exceptions = FALSE
    /\ tokenised = FALSE
    /\ pc = "idle"
    /\ sentences = <<>>
    /\ empty_indices = <<>>
    /\ sentence = Unbound
    /\ trees = <<>>
    /\ requests = <<>>
    /\ replies = <<>>
    /\ response = NoResponse
    /\ result = <<>>
    /\ raised = NoException

(* the caller invokes sentences2trees(sentences, suppress_exceptions, tokenised) *)
Call ==
    /\ pc = "idle"
    /\ arg' \in Batches
    /\ suppress_exceptions' \in BOOLEAN
    /\ tokenised' \in BOOLEAN
    /\ pc' = "entry"
    /\ UNCHANGED <<service_url, sentences, empty_indices, sentence, trees,
                   requests, replies, response, result, raised>>

(* lines 90-118 up to the first urlopen, or to the return of line 139 *)
Enter ==
    /\ pc = "entry"
    /\ IF ~(IF tokenised THEN tokenised_batch_type_check(arg)
            ELSE untokenised_batch_type_check(arg))
       THEN /\ pc' = "raised"
            /\ raised' = TypeValueError
            /\ UNCHANGED <<arg, sentences, empty_indices, sentence, requests,
                           result>>
       ELSE LET norm == IF tokenised THEN NormaliseTokenised(arg)
                        ELSE NormaliseUntokenised(arg)
                scan == BlankScan(norm, 0, <<>>, suppress_exceptions)
                kept == DeleteIndices(norm, scan.empty_indices)
            IN  /\ sentence' = scan.sentence
                /\ empty_indices' = scan.empty_indices
                /\ IF scan.blank
                   THEN /\ sentences' = norm
                        /\ arg' = CallerListAfter(arg, norm)
                        /\ pc' = "raised"
                        /\ raised' = BlankValueError(scan.index)
                        /\ UNCHANGED <<requests, result>>
                   ELSE /\ sentences' = kept
                        /\ arg' = CallerListAfter(arg, kept)
                        /\ raised' = raised
                        /\ IF kept = <<>>
                           THEN /\ result' = InsertNones(<<>>, scan.empty_indices)
                                /\ pc' = "returned"
                                /\ UNCHANGED requests
                           ELSE /\ requests' = <<MakeUrl(service_url, kept[1])>>
                                /\ pc' = "urlopen"
                                /\ UNCHANGED result
    /\ UNCHANGED <<service_url, suppress_exceptions, tokenised, trees, replies,
                   response>>

(* lines 119-139: the response to the request in flight is handled, then  *)
(* the next request is issued or the call returns                         *)
Receive(resp) ==
    /\ pc = "urlopen"
    /\ response' = resp
    /\ replies' = Append(replies, Succeeded(resp))
    /\ LET h == HandleResponse(resp, sentence, suppress_exceptions)
           ts == Append(trees, h.tree)
       IN  IF h.raise
           THEN /\ pc' = "raised"
                /\ raised' = h.exc
                /\ UNCHANGED <<trees, requests, result>>
           ELSE /\ trees' = ts
                /\ raised' = raised
                /\ IF Len(ts) < Len(sentences)
                   THEN /\ requests' = Append(requests,
                               MakeUrl(service_url, sentences[Len(ts) + 1]))
                        /\ pc' = "urlopen"
                        /\ UNCHANGED result
                   ELSE /\ result' = InsertNones(ts, empty_indices)
                        /\ pc' = "returned"
                        /\ UNCHANGED requests
    /\ UNCHANGED <<service_url, arg, suppress_exceptions, tokenised, sentences,
                   empty_indices, sentence>>

ReceiveTree == \E r \in TreeResponses(Len(requests)) : Receive(r)

ReceiveHTTPError == \E r \in HTTPErrorResponses : Receive(r)

ReceiveURLError == \E r \in URLErrorResponses : Receive(r)

ReceiveInvalidJSON == \E r \in InvalidJSONResponses : Receive(r)

ReceiveUndecodable == \E r \in UndecodableResponses(Len(requests)) : Receive(r)

(* control is back in the caller; the client is ready for another call *)
Unwind ==
    /\ pc \in {"returned", "raised"}
    /\ pc' = "idle"
    /\ arg' = List(<<>>)
    /\ suppress_exceptions' = FALSE
    /\ tokenised' = FALSE
    /\ sentences' = <<>>
    /\ empty_indices' = <<>>
    /\ sentence' = Unbound
    /\ trees' = <<>>
    /\ requests' = <<>>
    /\ replies' = <<>>
    /\ response' = NoResponse
    /\ result' = <<>>
    /\ raised' = NoException
    /\ UNCHANGED service_url

Next ==
    \/ Call
    \/ Enter
    \/ ReceiveTree
    \/ ReceiveHTTPError
    \/ ReceiveURLError
    \/ ReceiveInvalidJSON
    \/ ReceiveUndecodable
    \/ Unwind

Spec == Init /\ [][Next]_vars

(* ------------------------------ claims ------------------------------- *)

InCall == pc \in {"urlopen", "returned", "raised"}

WellShaped ==
    /\ arg.type = "list"
    /\ \A k \in 1..Len(arg.val) :
         IF tokenised
         THEN /\ arg.val[k].type = "list"
              /\ \A j \in 1..Len(arg.val[k].val) : arg.val[k].val[j].type = "str"
         ELSE arg.val[k].type = "str"

NormalisedInput ==
    IF tokenised THEN NormaliseTokenised(arg) ELSE NormaliseUntokenised(arg)

NonEmptyInput == SelectSeq(NormalisedInput, LAMBDA s : s # <<>>)

EmptyPositions == {i \in 1..Len(NormalisedInput) : NormalisedInput[i] = <<>>}

Rank(i) == Cardinality({j \in 1..i : NormalisedInput[j] # <<>>})

Collapsed(s) ==
    /\ s # <<>> => ~IsSpace(s[1]) /\ ~IsSpace(s[Len(s)])
    /\ \A j \in 1..(Len(s) - 1) : ~(IsSpace(s[j]) /\ IsSpace(s[j + 1]))

CleanTokens ==
    \A k \in 1..Len(arg.val) : \A j \in 1..Len(arg.val[k].val) :
        LET tok == arg.val[k].val[j].val
        IN  tok # <<>> /\ \A c \in 1..Len(tok) : ~IsSpace(tok[c])

(* C1: whenever the call returns, in either tokenisation mode and with    *)
(* either suppression flag, the returned list has as many entries as the  *)
(* input batch, however many sentences were empty or failed.              *)
C1_LengthPreserved == pc = "returned" => Len(result) = Len(arg.val)

C1_Witness ==
    /\ pc = "returned"
    /\ Len(arg.val) = MaxBatch
    /\ Len(empty_indices) >= 1
    /\ \E k \in 1..Len(replies) : ~replies[k]
    /\ \E k \in 1..Len(replies) : replies[k]

(* C2: under suppression every position i of a returned result is None    *)
(* exactly when sentence i normalises to the empty string or its request  *)
(* failed, and otherwise is the tree decoded from the response to the     *)
(* request made for sentence i.                                           *)
C2_Aligned ==
    (pc = "returned" /\ suppress_exceptions) =>
        /\ Len(result) = Len(arg.val)
        /\ \A i \in 1..Len(arg.val) :
             IF NormalisedInput[i] = <<>>
             THEN result[i] = None
             ELSE /\ Rank(i) <= Len(replies)
                  /\ Rank(i) <= Len(requests)
                  /\ requests[Rank(i)] = MakeUrl(service_url, NormalisedInput[i])
                  /\ result[i] = IF replies[Rank(i)] THEN from_json(Rank(i))
                                 ELSE None

C2_Witness ==
    /\ pc = "returned"
    /\ suppress_exceptions
    /\ Len(arg.val) >= 3
    /\ NormalisedInput[1] = <<>>
    /\ NormalisedInput[2] = <<>>
    /\ result[3].tree

(* C3: without suppression, a batch with a sentence that normalises to    *)
(* the empty string fails with the blank-sentence ValueError carrying the *)
(* lowest such index, and no request is made for any sentence.            *)
C3_BlankRaises ==
    (InCall /\ ~suppress_exceptions /\ WellShaped /\ EmptyPositions # {}) =>
        /\ pc = "raised"
        /\ raised = BlankValueError(
               (CHOOSE i \in EmptyPositions : \A j \in EmptyPositions : i <= j) - 1)
        /\ requests = <<>>

C3_Witness ==
    /\ pc = "raised"
    /\ raised.msg = "blank"
    /\ raised.index = 1
    /\ Len(arg.val) >= 3
    /\ NormalisedInput[3] = <<>>

(* C4: without suppression, an HTTP error status for some sentence raises *)
(* WebParseError with the text of the sentence whose request failed and   *)
(* with that status code, wherever the sentence is in the batch.          *)
C4_ErrorNamesFailingSentence ==
    (pc = "raised" /\ raised.type = "WebParseError") =>
        /\ raised.error_code = response.status
        /\ requests[Len(requests)] = MakeUrl(service_url, raised.sentence)

(* C5: under suppression, once shape validation has passed, the call      *)
(* never raises: every per-sentence failure gives None at that position.  *)
C5_SuppressionNeverRaises ==
    (suppress_exceptions /\ WellShaped) => pc # "raised"

(* C6: a batch whose shape does not match the tokenised flag fails with   *)
(* the ValueError of the type check, for both values of the suppression   *)
(* flag, before any request is issued.                                    *)
C6_ShapeRejected ==
    (InCall /\ ~WellShaped) =>
        /\ pc = "raised"
        /\ raised = TypeValueError
        /\ requests = <<>>

C6_Witness ==
    /\ pc = "raised"
    /\ raised = TypeValueError
    /\ suppress_exceptions
    /\ ~tokenised
    /\ arg.type = "list"
    /\ Len(arg.val) >= 2
    /\ arg.val[1].type = "str"
    /\ arg.val[2].type # "str"

(* C7: at most one request is outstanding at any time, and a call that    *)
(* runs to completion under suppression has issued exactly one request    *)
(* per non-empty normalised sentence, in input order.                     *)
C7_RequestsInOrder ==
    /\ Len(requests) = Len(replies) + (IF pc = "urlopen" THEN 1 ELSE 0)
    /\ (pc = "returned" /\ suppress_exceptions) =>
         requests = [k \in 1..Len(NonEmptyInput) |->
                        MakeUrl(service_url, NonEmptyInput[k])]

C7_Witness ==
    /\ pc = "returned"
    /\ suppress_exceptions
    /\ Len(requests) = 2
    /\ requests[1] = requests[2]
    /\ empty_indices = <<0>>

(* C8: without suppression the call is all-or-nothing: the first failing  *)
(* request or decoding raises at once, no later request is issued, no     *)
(* list is returned, and a returned list holds a tree at every position.  *)
C8_AllOrNothing ==
    ~suppress_exceptions =>
        /\ pc \in {"urlopen", "returned"} =>
             /\ \A k \in 1..Len(replies) : replies[k]
             /\ response.body # "not-a-tree"
        /\ pc = "returned" => \A i \in 1..Len(result) : result[i].tree
        /\ pc = "raised" =>
             /\ result = <<>>
             /\ Len(requests) = Len(replies)
             /\ \A k \in 1..(Len(replies) - 1) : replies[k]

C8_Witness ==
    /\ ~suppress_exceptions
    /\ pc = "raised"
    /\ raised.type = "URLError"
    /\ Len(trees) = 1
    /\ Len(sentences) = 3

(* C9: in both tokenisation modes every normalised sentence has no        *)
(* leading or trailing whitespace and no run of two or more whitespace    *)
(* characters, also for token lists with empty or whitespace tokens.      *)
C9_AlwaysCollapsed ==
    (InCall /\ WellShaped) =>
        \A k \in 1..Len(sentences) : Collapsed(sentences[k])

(* What does hold of the normalisation behind C9: every request carries  *)
(* the normalised sentence; that text is whitespace-collapsed in          *)
(* untokenised mode, and in tokenised mode whenever no token is empty or  *)
(* contains whitespace.                                                   *)
CollapsedWhenTokensClean ==
    (InCall /\ WellShaped) =>
        /\ \A k \in 1..Len(requests) :
             /\ k <= Len(sentences)
             /\ requests[k] = MakeUrl(service_url, sentences[k])
        /\ (~tokenised \/ CleanTokens) =>
             \A k \in 1..Len(sentences) : Collapsed(sentences[k])

(* C10: while a call is running, no step changes the caller's batch or    *)
(* the client's service_url, whatever the outcome.                        *)
C10_InputUntouched ==
    [][(pc \in {"entry", "urlopen"}) =>
          (arg' = arg /\ service_url' = service_url)]_vars

C10_Witness ==
    /\ pc = "returned"
    /\ ~tokenised
    /\ Len(sentences) = 1
    /\ Len(arg.val) = 3
    /\ arg.val[3].val # sentences[1]
    /\ NormalisedInput[3] = sentences[1]

====
